---------------------------- MODULE Spec2Model ----------------------------
(***************************************************************************)
(* Model of utils/file_utils.py: host-to-container path translation, the   *)
(* sandbox validator, directory expansion, the single-file reader and the  *)
(* token-budgeted assembler read_files.                                    *)
(*                                                                         *)
(* A string is a sequence of one-character strings, so that startswith,    *)
(* concatenation, splitting on "/" and lexicographic sorting are computed  *)
(* as the code computes them.  A pathlib.Path is a record                  *)
(* [abs, parts], parts being the components left after pathlib's           *)
(* normalisation (empty and "." components dropped, ".." kept).            *)
(***************************************************************************)
EXTENDS Integers, Sequences, FiniteSets, TLC

VARIABLES
    disk,            \* how the filesystem was laid out: <<link, hasW, sigs, prof>>
    fs,              \* the filesystem: canonical component list -> node
    WORKSPACE_ROOT,  \* security_config.WORKSPACE_ROOT (<<>> when unset)
    SECURITY_ROOT,   \* security_config.SECURITY_ROOT, a Path
    cwd,             \* the process's working directory (canonical parts)
    USER_HOME,       \* os.environ["USER_HOME"] (<<>> when unset)
    eloopRaises,     \* Path.resolve() raises RuntimeError on a symlink loop
    op,              \* the operation of the last call
    arg,             \* its path argument (single-path operations)
    ret,             \* what it returned or raised (single-path operations)
    file_paths,      \* read_files / expand_paths argument
    code,            \* read_files argument
    max_tokens,      \* read_files argument
    reserve_tokens,  \* read_files argument
    content_parts,   \* read_files local
    total_tokens,    \* read_files local
    available_tokens,\* read_files local
    files_skipped,   \* read_files local
    all_files,       \* read_files local (also the result of expand_paths)
    idx,             \* read_files loop index i (0-based)
    pc,              \* position inside read_files
    reads,           \* the file paths read_file_content was called on, in order
    result           \* the returned text, as its sequence of joined blocks

envVars == <<disk, fs, WORKSPACE_ROOT, SECURITY_ROOT, cwd, USER_HOME, eloopRaises>>
callVars == <<op, arg, ret>>
rfVars == <<file_paths, code, max_tokens, reserve_tokens, content_parts,
            total_tokens, available_tokens, files_skipped, all_files, idx,
            pc, reads, result>>
vars == <<envVars, callVars, rfVars>>

----------------------------------------------------------------------------
(* Strings *)

Slash == "/"
Dot == "."

Range(seq) == {seq[k] : k \in DOMAIN seq}

\* str.startswith
StartsWith(s, p) == Len(p) <= Len(s) /\ SubSeq(s, 1, Len(p)) = p

\* code point of a character (ASCII)
Ord(c) ==
    CASE c = "-" -> 45 [] c = "." -> 46 [] c = "/" -> 47
      [] c = "P" -> 80
      [] c = "a" -> 97 [] c = "b" -> 98 [] c = "c" -> 99 [] c = "d" -> 100
      [] c = "e" -> 101 [] c = "g" -> 103 [] c = "h" -> 104
      [] c = "l" -> 108 [] c = "m" -> 109 [] c = "n" -> 110
      [] c = "o" -> 111 [] c = "p" -> 112 [] c = "r" -> 114
      [] c = "s" -> 115 [] c = "t" -> 116 [] c = "u" -> 117
      [] c = "v" -> 118 [] c = "w" -> 119 [] c = "x" -> 120
      [] c = "y" -> 121 [] c = "z" -> 122
      [] OTHER -> 105

\* str.lower on one character
LowerChar(c) == IF c = "P" THEN "p" ELSE c

Lower(s) == [k \in 1..Len(s) |-> LowerChar(s[k])]

\* Python's str < str: code-point lexicographic order
RECURSIVE StrLess(_, _)
StrLess(s, t) ==
    IF t = <<>> THEN FALSE
    ELSE IF s = <<>> THEN TRUE
    ELSE IF Ord(Head(s)) # Ord(Head(t)) THEN Ord(Head(s)) < Ord(Head(t))
    ELSE StrLess(Tail(s), Tail(t))

\* s.split("/")
RECURSIVE SplitFrom(_, _, _)
SplitFrom(s, k, cur) ==
    IF k > Len(s) THEN <<cur>>
    ELSE IF s[k] = Slash THEN <<cur>> \o SplitFrom(s, k + 1, <<>>)
    ELSE SplitFrom(s, k + 1, Append(cur, s[k]))

Split(s) == SplitFrom(s, 1, <<>>)

\* "/".join(parts)
RECURSIVE Join(_)
Join(parts) ==
    IF parts = <<>> THEN <<>>
    ELSE IF Len(parts) = 1 THEN parts[1]
    ELSE parts[1] \o <<Slash>> \o Join(Tail(parts))

----------------------------------------------------------------------------
(* pathlib *)

DotDot == <<".", ".">>

\* Path(s)
PathOf(s) ==
    [abs   |-> s # <<>> /\ s[1] = Slash,
     parts |-> SelectSeq(Split(s), LAMBDA c : c # <<>> /\ c # <<Dot>>)]

\* str(path)
StrOf(p) ==
    IF p.abs THEN <<Slash>> \o Join(p.parts)
    ELSE IF p.parts = <<>> THEN <<Dot>>
    ELSE Join(p.parts)

AbsPath(parts) == [abs |-> TRUE, parts |-> parts]

\* the absolute path string of a component list
Abs(parts) == StrOf(AbsPath(parts))

\* path.relative_to(other) succeeds: other's components are a prefix
IsRelativeTo(p, other) ==
    /\ p.abs = other.abs
    /\ Len(other.parts) <= Len(p.parts)
    /\ SubSeq(p.parts, 1, Len(other.parts)) = other.parts

\* path.relative_to(other), when it succeeds
RelativeTo(p, other) ==
    [abs |-> FALSE,
     parts |-> SubSeq(p.parts, Len(other.parts) + 1, Len(p.parts))]

\* base / rel
Div(base, rel) == [abs |-> base.abs, parts |-> base.parts \o rel.parts]

\* path.suffix
Suffix(name) ==
    LET dots == {k \in 1..Len(name) : name[k] = Dot}
    IN  IF dots = {} THEN <<>>
        ELSE LET last == CHOOSE k \in dots : \A j \in dots : j <= k
             IN  IF last > 1 /\ last < Len(name)
                 THEN SubSeq(name, last, Len(name))
                 ELSE <<>>

----------------------------------------------------------------------------
(* The filesystem.  A node is a directory, a regular file or a symbolic     *)
(* link; it is keyed by its canonical component list.  size is st_size,     *)
(* tokens is estimate_tokens of the file's formatted block, sigs counts the *)
(* MCP signature files present in a directory, readable is whether open()   *)
(* succeeds.                                                                *)

Node(type, target, size, tokens, sigs, readable) ==
    [type |-> type, target |-> target, size |-> size, tokens |-> tokens,
     sigs |-> sigs, readable |-> readable]

DirNode(sigs) == Node("dir", <<>>, 0, 0, sigs, TRUE)
FileNode(size, tokens) == Node("file", <<>>, size, tokens, 0, TRUE)
LinkNode(target) == Node("link", target, 0, 0, 0, TRUE)

n_r  == <<"r">>
n_rx == <<"r", "x">>
n_o  == <<"o">>
n_h  == <<"h">>
n_w  == <<"w">>
n_d  == <<"d">>
n_m  == <<"m">>
n_n  == <<"n">>
n_ap == <<"a", ".", "p">>
n_bp == <<"b", ".", "p">>
n_cp == <<"c", ".", "p">>
n_ep == <<"e", ".", "p">>
n_lp == <<"l", ".", "p">>
n_sp == <<"s", ".", "p">>
n_up == <<"u", ".", "p">>
n_yp == <<"y", ".", "p">>
n_zp == <<"z", ".", "P">>
n_tx == <<"t", ".", "x">>
n_hid == <<".", "g", ".", "p">>

\* The symbolic link of the filesystem lives at /r/d/l.p
LinkAt == <<n_r, n_d, n_lp>>

\* Number of symbolic links a filesystem holds
SymlinkCount == 1

\* prof = <<tokens of a.p, tokens of b.p, tokens of c.p, size of b.p>>
FS(link, hasW, sigs, prof) ==
    LET base ==
            (<<>> :> DirNode(0))
         @@ (<<n_r>> :> DirNode(0))
         @@ (<<n_r, n_cp>> :> FileNode(10, prof[3]))
         @@ (<<n_r, n_up>> :> Node("file", <<>>, 10, 1, 0, FALSE))
         @@ (<<n_r, n_d>> :> DirNode(0))
         @@ (<<n_r, n_d, n_ap>> :> FileNode(10, prof[1]))
         @@ (<<n_r, n_d, n_bp>> :> FileNode(prof[4], prof[2]))
         @@ (<<n_r, n_d, n_tx>> :> FileNode(10, 1))
         @@ (<<n_r, n_d, n_hid>> :> FileNode(10, 1))
         @@ (<<n_r, n_d, n_m>> :> DirNode(sigs))
         @@ (<<n_r, n_d, n_m, n_zp>> :> FileNode(10, 1))
         @@ (<<n_r, n_d, n_n>> :> DirNode(0))
         @@ (<<n_r, n_d, n_n, n_yp>> :> FileNode(10, 1))
         @@ (<<n_rx>> :> DirNode(0))
         @@ (<<n_rx, n_ep>> :> FileNode(10, 1))
         @@ (<<n_o>> :> DirNode(0))
         @@ (<<n_o, n_sp>> :> FileNode(10, 1))
         @@ (<<n_h>> :> DirNode(0))
        withLink == IF link = <<>> THEN base
                    ELSE base @@ (LinkAt :> LinkNode(link))
    IN  IF hasW
        THEN withLink @@ (<<n_w>> :> DirNode(0))
                      @@ (<<n_w, n_ap>> :> FileNode(10, prof[1]))
        ELSE withLink

\* Targets of the link at /r/d/l.p: none, a file outside the sandbox, a file
\* inside it (relative target), itself (a loop), a directory outside
LinkTargets ==
    { <<>>,
      <<"/", "o", "/", "s", ".", "p">>,
      <<".", ".", "/", "c", ".", "p">>,
      <<"/", "r", "/", "d", "/", "l", ".", "p">>,
      <<"/", "o">> }

\* read_file_content's default max_size
DEFAULT_MAX_SIZE == 1000000

\* <<tokens of a.p, tokens of b.p, tokens of c.p, st_size of b.p>>
Profiles ==
    { <<2, 5, 3, 10>>,
      <<4, 1, 2, 10>>,
      <<1, 3, 1, 2 * DEFAULT_MAX_SIZE>> }

\* Signature-file counts of the directory /r/d/m
SigCounts == {0, 3}

\* lstat(parts) says symbolic link
IsLink(parts) == parts \in DOMAIN fs /\ fs[parts].type = "link"

\* posixpath.normpath on the components of an absolute path: ".." removes
\* the component before it, without looking at the filesystem
RECURSIVE NormParts(_, _)
NormParts(cur, rest) ==
    IF rest = <<>> THEN cur
    ELSE IF Head(rest) = DotDot
    THEN NormParts(IF cur = <<>> THEN cur ELSE SubSeq(cur, 1, Len(cur) - 1),
                   Tail(rest))
    ELSE NormParts(Append(cur, Head(rest)), Tail(rest))

\* posixpath._joinrealpath, non-strict, followed by realpath's abspath: cur
\* is resolved so far, rest is still to be walked, fuel bounds the links
\* followed (a filesystem with SymlinkCount links that follows more than that
\* many is in a loop).  On a loop the link is kept and the rest is joined to
\* it unresolved, then normalised lexically; ok = FALSE reports it.
RECURSIVE JoinRealPath(_, _, _)
JoinRealPath(cur, rest, fuel) ==
    IF rest = <<>> THEN [ok |-> TRUE, parts |-> cur]
    ELSE LET name == Head(rest)
             tl == Tail(rest)
             newpath == Append(cur, name)
         IN  IF name = DotDot
             THEN JoinRealPath(IF cur = <<>> THEN cur
                               ELSE SubSeq(cur, 1, Len(cur) - 1), tl, fuel)
             ELSE IF IsLink(newpath)
             THEN IF fuel = 0
                  THEN [ok |-> FALSE, parts |-> NormParts(newpath, tl)]
                  ELSE LET tgt == PathOf(fs[newpath].target)
                       IN  JoinRealPath(IF tgt.abs THEN <<>> ELSE cur,
                                        tgt.parts \o tl, fuel - 1)
             ELSE JoinRealPath(newpath, tl, fuel)

\* os.path.realpath(p) for a Path p: relative paths start at the cwd
RealPath(p) ==
    JoinRealPath(IF p.abs THEN <<>> ELSE cwd, p.parts, SymlinkCount).parts

\* os.stat(parts) fails with ELOOP: following the path never ends
StatELoop(parts) == ~JoinRealPath(<<>>, parts, SymlinkCount).ok

\* Path.resolve(strict=False) raises RuntimeError("Symlink loop from ..."):
\* the interpreter is one that reports loops, and the result is in a loop
ResolveRaises(p) == eloopRaises /\ StatELoop(RealPath(p))

\* os.stat(parts): the node the path leads to, links followed
NoNode == Node("none", <<>>, 0, 0, 0, FALSE)

\* the node at the end of a walk r of JoinRealPath
NodeAt(r) == IF r.ok /\ r.parts \in DOMAIN fs THEN fs[r.parts] ELSE NoNode

Stat(parts) == NodeAt(JoinRealPath(<<>>, parts, SymlinkCount))

\* Path.exists(), Path.is_dir(), Path.is_file()
Exists(parts) == Stat(parts).type # "none"
IsDir(parts) == Stat(parts).type = "dir"
IsFile(parts) == Stat(parts).type = "file"

----------------------------------------------------------------------------
(* security_config *)

\* CONTAINER_WORKSPACE = Path("/workspace"), written /w here
CONTAINER_WORKSPACE == AbsPath(<<n_w>>)

\* CONTAINER_WORKSPACE.exists()
ContainerExists == IsDir(CONTAINER_WORKSPACE.parts)

\* "WORKSPACE_ROOT and CONTAINER_WORKSPACE.exists()": the Docker mode
InDocker == WORKSPACE_ROOT # <<>> /\ ContainerExists

----------------------------------------------------------------------------
(* translate_path_for_environment *)

OUTSIDE_PREFIX ==
    <<"/", "i", "n", "a", "c", "c", "e", "s", "s", "i", "b", "l", "e",
      "/", "o", "u", "t", "s", "i", "d", "e",
      "/", "m", "o", "u", "n", "t", "e", "d",
      "/", "v", "o", "l", "u", "m", "e">>

ERROR_PREFIX ==
    <<"/", "i", "n", "a", "c", "c", "e", "s", "s", "i", "b", "l", "e",
      "/", "t", "r", "a", "n", "s", "l", "a", "t", "i", "o", "n",
      "/", "e", "r", "r", "o", "r">>

\* lines 270-273: the path is already a container path
AlreadyContainerPath(path_str) ==
    \/ StartsWith(path_str, StrOf(CONTAINER_WORKSPACE) \o <<Slash>>)
    \/ path_str = StrOf(CONTAINER_WORKSPACE)

\* lines 290-304: relative_to(real_workspace_root), the container path on
\* success, the sentinel for a path outside the mounted workspace otherwise
ContainerPathFor(path_str, real_host_path, real_workspace_root) ==
    IF IsRelativeTo(real_host_path, real_workspace_root)
    THEN StrOf(Div(CONTAINER_WORKSPACE,
                   RelativeTo(real_host_path, real_workspace_root)))
    ELSE OUTSIDE_PREFIX \o path_str

translate_path_for_environment(path_str) ==
    IF WORKSPACE_ROOT = <<>> \/ ~ContainerExists THEN path_str
    ELSE IF AlreadyContainerPath(path_str) THEN path_str
    ELSE IF ResolveRaises(PathOf(path_str))
    THEN ERROR_PREFIX \o path_str
    ELSE ContainerPathFor(path_str,
                          AbsPath(RealPath(PathOf(path_str))),
                          AbsPath(RealPath(PathOf(WORKSPACE_ROOT))))

----------------------------------------------------------------------------
(* resolve_and_validate_path *)

Outcome(status, path, requested, resolved) ==
    [status |-> status, path |-> path, requested |-> requested,
     resolved |-> resolved, workspace |-> StrOf(SECURITY_ROOT)]

\* A containment test on the path strings instead of on the components
InsideSandbox_StringPrefix(resolved_path) ==
    StartsWith(StrOf(resolved_path), StrOf(SECURITY_ROOT))

\* Step 5, lines 350-360: resolved_path.relative_to(SECURITY_ROOT)
InsideSandbox(resolved_path) == IsRelativeTo(resolved_path, SECURITY_ROOT)

\* Step 5, lines 348-362: the containment check on the resolved path
CheckSandbox(path_str, resolved_path) ==
    IF ~InsideSandbox(resolved_path)
    THEN Outcome("PermissionError", <<>>, path_str, StrOf(resolved_path))
    ELSE Outcome("ok", resolved_path.parts, path_str, StrOf(resolved_path))

\* The containment check made on the path as written (os.path.abspath),
\* symbolic links not followed
ValidateUserPath_Unresolved(path_str, user_path) ==
    IF ~user_path.abs
    THEN Outcome("ValueError", <<>>, path_str, <<>>)
    ELSE CheckSandbox(path_str, AbsPath(NormParts(<<>>, user_path.parts)))

\* Steps 3 and 4, lines 340-346: is_absolute(), then resolve()
ValidateUserPath(path_str, user_path) ==
    IF ~user_path.abs
    THEN Outcome("ValueError", <<>>, path_str, <<>>)
    ELSE IF ResolveRaises(user_path)
    THEN Outcome("RuntimeError", <<>>, path_str, <<>>)
    ELSE CheckSandbox(path_str, AbsPath(RealPath(user_path)))

\* Steps 1 and 2, lines 333-337: translate, then Path(translated_path_str)
resolve_and_validate_path(path_str) ==
    ValidateUserPath(path_str, PathOf(translate_path_for_environment(path_str)))

----------------------------------------------------------------------------
(* Directory guards *)

\* Path.home() of the process
HOME == <<n_o>>

\* file_types.CODE_EXTENSIONS, security_config.EXCLUDED_DIRS
CODE_EXTENSIONS == {<<".", "p">>}
EXCLUDED_DIRS == {n_n}

\* "if matches >= 3" of is_mcp_directory
MCP_SIGNATURE_THRESHOLD == 3

\* is_mcp_directory(path): sigs counts the signature files that exist in it
is_mcp_directory(parts) ==
    IsDir(parts) /\ Stat(parts).sigs >= MCP_SIGNATURE_THRESHOLD

\* get_user_home_directory()
get_user_home_directory ==
    IF USER_HOME # <<>> THEN RealPath(PathOf(USER_HOME))
    ELSE IF ContainerExists /\ WORKSPACE_ROOT # <<>>
    THEN RealPath(PathOf(WORKSPACE_ROOT))
    ELSE HOME

\* the first index at which pat occurs in s, 0 when it does not
FindFirst(s, pat) ==
    LET hits == {k \in 1..(Len(s) - Len(pat) + 1) :
                    SubSeq(s, k, k + Len(pat) - 1) = pat}
    IN  IF hits = {} THEN 0 ELSE CHOOSE k \in hits : \A j \in hits : k <= j

\* s.split(pat)[1], for an s that holds pat
AfterPattern(s, pat) ==
    LET k == FindFirst(s, pat)
        rest == SubSeq(s, k + Len(pat), Len(s))
        k2 == FindFirst(rest, pat)
    IN  IF k2 = 0 THEN rest ELSE SubSeq(rest, 1, k2 - 1)

home_patterns ==
    { <<"/", "u", "s", "e", "r", "s", "/">>,
      <<"/", "h", "o", "m", "e", "/">>,
      <<"c", ":", "\\", "u", "s", "e", "r", "s", "\\">>,
      <<"c", ":", "/", "u", "s", "e", "r", "s", "/">> }

\* is_home_directory_root(path), path already resolved
\* lines 125-135: a home pattern occurs and no separator follows the name
MatchesHomePattern(path_str) ==
    \E pattern \in home_patterns :
        /\ FindFirst(path_str, pattern) # 0
        /\ \A c \in Range(AfterPattern(path_str, pattern)) :
              c \notin {"/", "\\"}

\* is_home_directory_root(path), path already resolved
is_home_directory_root(parts) ==
    \/ RealPath(AbsPath(parts)) = RealPath(AbsPath(get_user_home_directory))
    \/ MatchesHomePattern(Lower(Abs(RealPath(AbsPath(parts)))))

----------------------------------------------------------------------------
(* expand_paths *)

\* list.sort() on strings: insertion into an ascending list
RECURSIVE InsertSorted(_, _)
InsertSorted(x, seq) ==
    IF seq = <<>> THEN <<x>>
    ELSE IF StrLess(Head(seq), x) \/ Head(seq) = x
    THEN <<Head(seq)>> \o InsertSorted(x, Tail(seq))
    ELSE <<x>> \o seq

RECURSIVE SortStrings(_)
SortStrings(seq) ==
    IF seq = <<>> THEN <<>>
    ELSE InsertSorted(Head(seq), SortStrings(Tail(seq)))

\* an expansion that returns the files in the order it met them
FinalOrder_Unsorted(expanded_files) == expanded_files

\* lines 483-486: expanded_files.sort()
FinalOrder(expanded_files) == SortStrings(expanded_files)

\* the entries of a directory
Children(dir) ==
    {c \in DOMAIN fs : Len(c) = Len(dir) + 1 /\ SubSeq(c, 1, Len(dir)) = dir}

Last(seq) == seq[Len(seq)]

IsHidden(name) == name # <<>> /\ name[1] = Dot

\* lines 449-481: the files os.walk(dir) yields that pass the filters.
\* os.walk lists an entry under dirs when it is a directory (links followed)
\* and under files otherwise, and descends only into directories that are
\* not links.
RECURSIVE WalkFiles(_, _)
WalkFiles(dir, extensions) ==
    LET entries == Children(dir)
        dirs == {c \in entries :
                    /\ IsDir(c)
                    /\ ~IsHidden(Last(c))
                    /\ Last(c) \notin EXCLUDED_DIRS
                    /\ ~is_mcp_directory(c)}
        files == {c \in entries :
                    /\ ~IsDir(c)
                    /\ ~IsHidden(Last(c))
                    /\ (extensions = {} \/ Lower(Suffix(Last(c))) \in extensions)}
    IN  files \cup UNION {WalkFiles(c, extensions) : c \in {x \in dirs : ~IsLink(x)}}

\* a set of strings as an ascending list (the order the walk is taken in)
RECURSIVE SetToSeq(_)
SetToSeq(S) ==
    IF S = {} THEN <<>>
    ELSE LET m == CHOOSE x \in S : \A y \in S : x = y \/ StrLess(x, y)
         IN  <<m>> \o SetToSeq(S \ {m})

\* "if x not in seen: append, add" for each x of new, in order
RECURSIVE AppendUnseen(_, _)
AppendUnseen(expanded_files, new) ==
    IF new = <<>> THEN expanded_files
    ELSE AppendUnseen(IF Head(new) \in Range(expanded_files)
                      THEN expanded_files
                      ELSE Append(expanded_files, Head(new)),
                      Tail(new))

\* directory guards that leave the sandbox root out
DirectoryGuard_NoRootCheck(path_obj) ==
    /\ IsDir(path_obj)
    /\ \/ is_home_directory_root(path_obj)
       \/ is_mcp_directory(path_obj)

\* lines 416-439: the three guards on a directory argument
DirectoryGuard(path_obj) ==
    /\ IsDir(path_obj)
    /\ \/ RealPath(AbsPath(path_obj)) = RealPath(SECURITY_ROOT)
       \/ is_home_directory_root(path_obj)
       \/ is_mcp_directory(path_obj)

\* lines 412-481: what one validated path adds.  acc is [raised, files].
ExpandValidated(acc, path_obj, extensions) ==
    IF ~Exists(path_obj) THEN acc
    ELSE IF DirectoryGuard(path_obj) THEN acc
    ELSE IF IsFile(path_obj)
    THEN [acc EXCEPT !.files = AppendUnseen(@, <<Abs(path_obj)>>)]
    ELSE IF IsDir(path_obj)
    THEN [acc EXCEPT !.files =
             AppendUnseen(@, SetToSeq({Abs(f) :
                              f \in WalkFiles(path_obj, extensions)}))]
    ELSE acc

\* lines 406-410: "except (ValueError, PermissionError): continue"; any
\* other exception of the validator leaves expand_paths
ExpandOutcome(acc, v, extensions) ==
    IF acc.raised THEN acc
    ELSE IF v.status = "RuntimeError" THEN [acc EXCEPT !.raised = TRUE]
    ELSE IF v.status # "ok" THEN acc
    ELSE ExpandValidated(acc, v.path, extensions)

\* One round of the loop of lines 405-481
ExpandOne(acc, path, extensions) ==
    ExpandOutcome(acc, resolve_and_validate_path(path), extensions)

RECURSIVE ExpandLoop(_, _, _)
ExpandLoop(acc, paths, extensions) ==
    IF paths = <<>> THEN acc
    ELSE ExpandLoop(ExpandOne(acc, Head(paths), extensions),
                    Tail(paths), extensions)

\* expand_paths(paths, extensions): [raised, files]; extensions = {} stands
\* for a caller that passes an empty set, which disables the filter
\* lines 483-486: the sort and the return
ExpandReturn(r) ==
    [raised |-> r.raised,
     files |-> IF r.raised THEN <<>> ELSE FinalOrder(r.files)]

expand_paths(paths, extensions) ==
    ExpandReturn(ExpandLoop([raised |-> FALSE, files |-> <<>>],
                            paths, extensions))

----------------------------------------------------------------------------
(* read_file_content *)

\* estimate_tokens of a placeholder, note or summary block
PlaceholderTokens == 2

\* A block of text.  path is the path string the block names, tokens is
\* estimate_tokens of the block, source is the file whose content the block
\* carries (<<>> when it carries none), detail lists the strings the block
\* shows besides its path.
Block(kind, path, tokens, source, detail) ==
    [kind |-> kind, path |-> path, tokens |-> tokens, source |-> source,
     detail |-> detail]

Placeholder(kind, path, detail) ==
    Block(kind, path, PlaceholderTokens, <<>>, detail)

\* lines 342 and 358-360: what str(e) of the raised error shows besides the
\* requested path
ErrorDetail(v) ==
    IF v.status = "PermissionError" THEN <<v.workspace, v.resolved>> ELSE <<>>

\* lines 513-529: the block built from a ValueError or PermissionError
AccessErrorBlock(file_path, v) ==
    Placeholder("ERROR ACCESSING FILE", file_path,
                IF InDocker THEN <<WORKSPACE_ROOT>> ELSE ErrorDetail(v))

\* read_file_content(file_path, max_size): [raised, block, opened]
\* what read_file_content hands back: it returned block b, having opened
\* the file or not
Returned(b, opened) == [raised |-> FALSE, block |-> b, opened |-> opened]

\* lines 548-586: the size check, then open() and read()
ReadNode(file_path, max_size, path, node) ==
    IF node.size > max_size
    THEN Returned(Placeholder("FILE TOO LARGE", file_path, <<>>), FALSE)
    ELSE IF ~node.readable
    THEN Returned(Placeholder("ERROR READING FILE", file_path, <<>>), TRUE)
    ELSE Returned(Block("FILE", file_path, node.tokens, path, <<>>), TRUE)

\* lines 531-586: the checks on the validated path
ReadValidated(file_path, max_size, path) ==
    IF ~Exists(path)
    THEN Returned(Placeholder("FILE NOT FOUND", file_path, <<>>), FALSE)
    ELSE IF ~IsFile(path)
    THEN Returned(Placeholder("NOT A FILE", file_path, <<>>), FALSE)
    ELSE ReadNode(file_path, max_size, path, Stat(path))

\* read_file_content(file_path, max_size): [raised, block, opened].
\* lines 509-529: "except (ValueError, PermissionError)" builds the access
\* error block; any other exception of the validator leaves the function
ReadOutcome(file_path, max_size, v) ==
    IF v.status = "RuntimeError"
    THEN [raised |-> TRUE, block |-> Placeholder("none", file_path, <<>>),
          opened |-> FALSE]
    ELSE IF v.status # "ok"
    THEN Returned(AccessErrorBlock(file_path, v), FALSE)
    ELSE ReadValidated(file_path, max_size, v.path)

read_file_content(file_path, max_size) ==
    ReadOutcome(file_path, max_size, resolve_and_validate_path(file_path))

----------------------------------------------------------------------------
(* Initial states: the configuration and the filesystem the process starts  *)
(* in.  They never change afterwards.                                       *)

EnvInit(links, roots, wroots, hasWs, cwds, homes, sigss, profs) ==
    /\ disk \in links \X hasWs \X sigss \X profs
    /\ fs = FS(disk[1], disk[2], disk[3], disk[4])
    /\ SECURITY_ROOT \in roots
    /\ WORKSPACE_ROOT \in wroots
    /\ cwd \in cwds
    /\ USER_HOME \in homes
    /\ eloopRaises \in BOOLEAN
    /\ (eloopRaises = FALSE => disk[1] = Abs(LinkAt))
    /\ (USER_HOME # <<>> => disk[3] = 0)

NoReturn == [status |-> "none"]

NoCode == [given |-> FALSE, nonempty |-> FALSE, tokens |-> 0]

CallInit ==
    /\ op = "init"
    /\ arg = <<>>
    /\ ret = NoReturn
    /\ file_paths = <<>>
    /\ code = NoCode
    /\ max_tokens = 0
    /\ reserve_tokens = 0
    /\ content_parts = <<>>
    /\ total_tokens = 0
    /\ available_tokens = 0
    /\ files_skipped = <<>>
    /\ all_files = <<>>
    /\ idx = 0
    /\ pc = "idle"
    /\ reads = <<>>
    /\ result = <<>>

\* What a call that is not read_files leaves of read_files' locals
ResetReadFiles ==
    /\ file_paths' = <<>>
    /\ code' = NoCode
    /\ max_tokens' = 0
    /\ reserve_tokens' = 0
    /\ content_parts' = <<>>
    /\ total_tokens' = 0
    /\ available_tokens' = 0
    /\ files_skipped' = <<>>
    /\ all_files' = <<>>
    /\ idx' = 0
    /\ pc' = "idle"
    /\ reads' = <<>>
    /\ result' = <<>>

----------------------------------------------------------------------------
(* The validator machine: calls of translate_path_for_environment and of    *)
(* resolve_and_validate_path on caller-supplied path strings.               *)

InputPaths ==
    { Abs(<<n_r>>),
      Abs(<<n_r, n_cp>>),
      Abs(<<n_r, n_d, n_ap>>),
      Abs(<<n_r, DotDot, n_o, n_sp>>),
      Abs(<<n_r, n_d, DotDot, DotDot, n_rx, n_ep>>),
      Abs(<<n_rx>>),
      Abs(<<n_rx, n_ep>>),
      Abs(<<n_o, n_sp>>),
      Abs(LinkAt),
      Abs(LinkAt \o <<n_sp>>),
      Abs(LinkAt \o <<DotDot, n_cp>>),
      Abs(<<n_h, n_ap>>),
      Abs(<<n_h, DotDot, n_o, n_sp>>),
      Abs(<<n_h>>),
      Abs(<<n_w>>),
      Abs(<<n_w, n_ap>>),
      Abs(<<n_w, DotDot, n_o, n_sp>>),
      n_ap,
      DotDot \o <<Slash>> \o n_o \o <<Slash>> \o n_sp,
      <<>> }

PathInit ==
    /\ EnvInit(LinkTargets,
               {AbsPath(<<n_r>>), AbsPath(<<n_w>>)},
               {<<>>, Abs(<<n_h>>)},
               BOOLEAN,
               {<<n_o>>, <<n_h>>},
               {<<>>},
               {0},
               {<<2, 5, 3, 10>>})
    /\ CallInit

\* No call is in progress: the previous one has returned to its caller
Idle == op = "init" /\ pc = "idle"

\* The caller takes the result of the finished call
Return ==
    /\ op # "init"
    /\ pc \in {"idle", "done", "raised"}
    /\ op' = "init"
    /\ arg' = <<>>
    /\ ret' = NoReturn
    /\ ResetReadFiles
    /\ UNCHANGED envVars

ResolveCall(p) ==
    /\ Idle
    /\ op' = "resolve_and_validate_path"
    /\ arg' = p
    /\ ret' = resolve_and_validate_path(p)
    /\ ResetReadFiles
    /\ UNCHANGED envVars

TranslateCall(p) ==
    /\ Idle
    /\ op' = "translate_path_for_environment"
    /\ arg' = p
    /\ ret' = [status |-> "ok", value |-> translate_path_for_environment(p)]
    /\ ResetReadFiles
    /\ UNCHANGED envVars

\* The caller hands an already translated path to the translator again
\* (translate_file_paths followed by resolve_and_validate_path does this).
Retranslate ==
    /\ op = "translate_path_for_environment"
    /\ op' = "retranslate"
    /\ arg' = ret.value
    /\ ret' = [status |-> "ok",
               value |-> translate_path_for_environment(ret.value)]
    /\ ResetReadFiles
    /\ UNCHANGED envVars

Resolve == \E p \in InputPaths : ResolveCall(p)

Translate == \E p \in InputPaths : TranslateCall(p)

PathNext == Resolve \/ Translate \/ Retranslate \/ Return

PathSpec == PathInit /\ [][PathNext]_vars

----------------------------------------------------------------------------
(* The assembler machine: calls of expand_paths, read_file_content and      *)
(* read_files.  read_files is taken in steps: the code block and the        *)
(* expansion, one step per loop iteration, the skip note and the join.      *)

\* token_utils.DEFAULT_CONTEXT_WINDOW, the max_tokens of a caller passing None
DEFAULT_CONTEXT_WINDOW == 200000

\* Bounds of the arguments
MaxPaths == 2
MaxCeiling == 6
MaxReserve == 1
MaxCodeTokens == 3

\* Path arguments of expand_paths
FileInputs ==
    { Abs(<<n_r, n_d>>),
      Abs(<<n_r, n_cp>>),
      Abs(<<n_r>>),
      Abs(<<n_r, n_d, DotDot>>),
      Abs(<<n_r, n_d, n_m>>),
      Abs(LinkAt),
      Abs(<<n_o, n_sp>>) }

RECURSIVE SeqsUpTo(_, _)
SeqsUpTo(S, n) ==
    IF n = 0 THEN {<<>>}
    ELSE LET shorter == SeqsUpTo(S, n - 1)
         IN  shorter \cup {Append(q, x) : q \in shorter, x \in S}

\* Path arguments of read_files
AssembleInputs == { Abs(<<n_r, n_d>>), Abs(<<n_r, n_cp>>), Abs(<<n_r>>) }

PathLists == SeqsUpTo(AssembleInputs, MaxPaths)

ExpandLists == SeqsUpTo(FileInputs, MaxPaths)

\* The code argument: None, the empty string, or a text whose formatted
\* block is estimated at tokens
CodeArgs ==
    {NoCode, [given |-> TRUE, nonempty |-> FALSE, tokens |-> 0]}
    \cup {[given |-> TRUE, nonempty |-> TRUE, tokens |-> k] :
             k \in {1, MaxCodeTokens}}

MaxTokensArgs == 0..MaxCeiling \cup {DEFAULT_CONTEXT_WINDOW}

ReserveArgs == 0..MaxReserve

\* Paths handed to read_file_content directly
ReaderInputs ==
    FileInputs \cup { Abs(<<n_r, n_d, n_bp>>), Abs(<<n_r, n_up>>),
                      Abs(<<n_r, n_d, n_yp, n_ap>>), n_ap }

SpecInit ==
    /\ EnvInit(LinkTargets,
               {AbsPath(<<n_r>>)},
               {<<>>},
               {FALSE},
               {<<n_o>>},
               {<<>>, Abs(<<n_r, n_d, n_m>>)},
               SigCounts,
               Profiles)
    /\ CallInit

\* line 635: the inline code fits whole
CodeFits(code_tokens, available) == code_tokens <= available

\* line 638: available_tokens -= code_tokens
AvailableAfterCode(available, code_tokens) == available - code_tokens

\* a stop test that lets the scan go on when the budget is exactly used up
BudgetExhausted_Strict(total, available) == total > available

\* line 655: the budget is exhausted
BudgetExhausted(total, available) == total >= available

\* a fit test that forgets what is already used
FileFits_IgnoresUsed(total, file_tokens, available) == file_tokens <= available

\* line 664: the file fits in what is left
FileFits(total, file_tokens, available) == total + file_tokens <= available

CodeBlock(c) == Block("DIRECT CODE", <<>>, c.tokens, <<>>, <<>>)

\* line 650; the block lists the paths provided
NoFilesBlock(paths) == Block("NO FILES FOUND", <<>>, PlaceholderTokens, <<>>, paths)

\* "Show first 10 skipped files"
SKIP_LIST_LIMIT == 10

\* lines 677-687: the note on skipped files
SkipNote(skipped) ==
    [kind |-> "SKIPPED FILES", path |-> <<>>, tokens |-> PlaceholderTokens,
     source |-> <<>>,
     detail |-> SubSeq(skipped, 1, IF Len(skipped) > SKIP_LIST_LIMIT
                                   THEN SKIP_LIST_LIMIT ELSE Len(skipped)),
     count |-> Len(skipped),
     more |-> IF Len(skipped) > SKIP_LIST_LIMIT
              THEN Len(skipped) - SKIP_LIST_LIMIT ELSE 0]

\* lines 615-650: defaults, the inline code, the expansion
\* (ex is expand_paths(paths), the value line 644 computes)
ReadFilesStart(paths, c, mt, rt, ex) ==
    LET available0 == mt - rt
        takeCode == c.nonempty /\ CodeFits(c.tokens, available0)
        parts1 == IF takeCode THEN <<CodeBlock(c)>> ELSE <<>>
    IN  /\ Idle
        /\ op' = "read_files"
        /\ arg' = <<>>
        /\ ret' = NoReturn
        /\ file_paths' = paths
        /\ code' = c
        /\ max_tokens' = mt
        /\ reserve_tokens' = rt
        /\ total_tokens' = IF takeCode THEN c.tokens ELSE 0
        /\ available_tokens' = IF takeCode
                               THEN AvailableAfterCode(available0, c.tokens)
                               ELSE available0
        /\ files_skipped' = <<>>
        /\ idx' = 0
        /\ reads' = <<>>
        /\ result' = <<>>
        /\ IF paths = <<>>
           THEN /\ content_parts' = parts1
                /\ all_files' = <<>>
                /\ pc' = "finish"
           ELSE IF ex.raised
           THEN /\ content_parts' = parts1
                /\ all_files' = <<>>
                /\ pc' = "raised"
           ELSE IF ex.files = <<>>
           THEN /\ content_parts' = Append(parts1, NoFilesBlock(paths))
                /\ all_files' = <<>>
                /\ pc' = "finish"
           ELSE /\ content_parts' = parts1
                /\ all_files' = ex.files
                /\ pc' = "loop"
        /\ UNCHANGED envVars

\* lines 655-658: the budget is exhausted, the rest is skipped unread
ReadFilesHardStop ==
    /\ pc = "loop"
    /\ BudgetExhausted(total_tokens, available_tokens)
    /\ files_skipped' = files_skipped \o SubSeq(all_files, idx + 1, Len(all_files))
    /\ pc' = "finish"
    /\ UNCHANGED <<envVars, callVars, file_paths, code, max_tokens,
                   reserve_tokens, content_parts, total_tokens,
                   available_tokens, all_files, idx, reads, result>>

\* lines 660-673: the file is read, then accepted or skipped
ReadFilesReadFile ==
    /\ pc = "loop"
    /\ ~BudgetExhausted(total_tokens, available_tokens)
    /\ \E r \in {read_file_content(all_files[idx + 1], DEFAULT_MAX_SIZE)} :
       LET file_path == all_files[idx + 1]
           file_tokens == r.block.tokens
       IN  /\ reads' = Append(reads, file_path)
           /\ IF r.raised
              THEN /\ pc' = "raised"
                   /\ UNCHANGED <<content_parts, total_tokens, files_skipped, idx>>
              ELSE /\ IF FileFits(total_tokens, file_tokens, available_tokens)
                      THEN /\ content_parts' = Append(content_parts, r.block)
                           /\ total_tokens' = total_tokens + file_tokens
                           /\ UNCHANGED files_skipped
                      ELSE /\ files_skipped' = Append(files_skipped, file_path)
                           /\ UNCHANGED <<content_parts, total_tokens>>
                   /\ idx' = idx + 1
                   /\ pc' = IF idx + 1 = Len(all_files) THEN "finish" ELSE "loop"
    /\ UNCHANGED <<envVars, callVars, file_paths, code, max_tokens,
                   reserve_tokens, available_tokens, all_files, result>>

\* a finish that leaves the note on skipped files out
WithSkipNote_Dropped(parts, skipped) == parts

\* lines 677-687: "if files_skipped: ... content_parts.append(skip_note)"
WithSkipNote(parts, skipped) ==
    IF skipped # <<>> THEN Append(parts, SkipNote(skipped)) ELSE parts

\* lines 677-691: the skip note, the join, the return
ReadFilesFinish ==
    /\ pc = "finish"
    /\ content_parts' = WithSkipNote(content_parts, files_skipped)
    /\ result' = content_parts'
    /\ pc' = "done"
    /\ UNCHANGED <<envVars, callVars, file_paths, code, max_tokens,
                   reserve_tokens, total_tokens, available_tokens,
                   files_skipped, all_files, idx, reads>>

ExpandCall(paths, extensions) ==
    /\ Idle
    /\ \E ex \in {expand_paths(paths, extensions)} :
        /\ op' = "expand_paths"
        /\ arg' = <<>>
        /\ ret' = [status |-> IF ex.raised THEN "RuntimeError" ELSE "ok",
                   extensions |-> extensions]
        /\ file_paths' = paths
        /\ all_files' = ex.files
        /\ pc' = IF ex.raised THEN "raised" ELSE "done"
        /\ UNCHANGED <<envVars, code, max_tokens, reserve_tokens,
                       content_parts, total_tokens, available_tokens,
                       files_skipped, idx, reads, result>>

ReadFileContentCall(p, max_size) ==
    /\ Idle
    /\ \E r \in {read_file_content(p, max_size)} :
        /\ op' = "read_file_content"
        /\ arg' = p
        /\ ret' = [status |-> IF r.raised THEN "RuntimeError" ELSE "ok",
                   block |-> r.block, opened |-> r.opened,
                   max_size |-> max_size]
        /\ ResetReadFiles
        /\ UNCHANGED envVars

ReadFiles ==
    /\ Idle
    /\ \E paths \in PathLists :
        \E ex \in {expand_paths(paths, CODE_EXTENSIONS)} :
            \E c \in CodeArgs, mt \in MaxTokensArgs, rt \in ReserveArgs :
                ReadFilesStart(paths, c, mt, rt, ex)

Expand ==
    /\ Idle
    /\ \E paths \in ExpandLists, extensions \in {CODE_EXTENSIONS, {}} :
        ExpandCall(paths, extensions)

ReadFileContent ==
    /\ Idle
    /\ \E p \in ReaderInputs, max_size \in {DEFAULT_MAX_SIZE, 2 * DEFAULT_MAX_SIZE} :
        ReadFileContentCall(p, max_size)

Next ==
    \/ ReadFiles
    \/ ReadFilesHardStop
    \/ ReadFilesReadFile
    \/ ReadFilesFinish
    \/ Expand
    \/ ReadFileContent
    \/ Return

Spec == SpecInit /\ [][Next]_vars

----------------------------------------------------------------------------
(* Claims about the validator machine (checked under PathSpec)              *)

Resolved == op = "resolve_and_validate_path"

\* The components of the sandbox root lead the components of parts
UnderRoot(parts) ==
    /\ Len(parts) >= Len(SECURITY_ROOT.parts)
    /\ \A k \in 1..Len(SECURITY_ROOT.parts) : parts[k] = SECURITY_ROOT.parts[k]

\* C1: Sandbox containment.  Whenever resolve_and_validate_path returns a
\* path, that path is canonical (no ".." component, and resolving it again
\* changes nothing) and it is the sandbox root or a descendant of it by whole
\* components; and a request that resolves to a sibling whose name merely
\* starts with the root's name is refused with PermissionError.
C1_SandboxContainment ==
    Resolved =>
        /\ ret.status = "ok" =>
              /\ UnderRoot(ret.path)
              /\ \A k \in 1..Len(ret.path) : ret.path[k] # DotDot
              /\ RealPath(AbsPath(ret.path)) = ret.path
        /\ (arg \in {Abs(<<n_rx>>), Abs(<<n_rx, n_ep>>),
                     Abs(<<n_r, n_d, DotDot, DotDot, n_rx, n_ep>>)}
              /\ SECURITY_ROOT = AbsPath(<<n_r>>))
           => ret.status = "PermissionError"

\* C1 witness: a link inside the sandbox that points outside it was
\* requested and refused.
C1_Witness ==
    /\ Resolved
    /\ arg = Abs(LinkAt)
    /\ disk[1] = Abs(<<n_o, n_sp>>)
    /\ SECURITY_ROOT = AbsPath(<<n_r>>)
    /\ ret.status = "PermissionError"

\* C6: Relative paths are rejected.  Whenever resolve_and_validate_path is
\* called with a path that is not absolute it raises ValueError, whether or
\* not the host-to-container translation is active.
C6_RelativeRejected ==
    (Resolved /\ ~PathOf(arg).abs) => ret.status = "ValueError"

\* C7: Translation idempotence.  With a workspace mount configured and the
\* container mount present, translating an already translated path returns
\* it unchanged, sentinels included.
C7_TranslationIdempotent ==
    (op = "retranslate" /\ InDocker) => ret.value = arg

----------------------------------------------------------------------------
(* Claims about the assembler machine (checked under Spec)                  *)

Assembling == op = "read_files"

RECURSIVE SumTokens(_)
SumTokens(blocks) ==
    IF blocks = <<>> THEN 0
    ELSE Head(blocks).tokens + SumTokens(Tail(blocks))

\* The blocks that went through the budget test: the inline code and the
\* blocks read_file_content returned
IsAccepted(b) == b.kind \notin {"NO FILES FOUND", "SKIPPED FILES"}
AcceptedBlocks(parts) == SelectSeq(parts, IsAccepted)
IsFileBlock(b) == IsAccepted(b) /\ b.kind # "DIRECT CODE"
FileBlocks(parts) == SelectSeq(parts, IsFileBlock)

\* used: the tokens of everything accepted so far
Used == SumTokens(AcceptedBlocks(content_parts))

\* C2: Budget hard ceiling.  In every read_files call, once anything has
\* been accepted (inline code or a file block), the tokens of all accepted
\* blocks sum to at most max_tokens - reserve_tokens, and total_tokens is
\* that sum.
C2_BudgetHardCeiling ==
    Assembling =>
        /\ total_tokens = Used
        /\ AcceptedBlocks(content_parts) # <<>> =>
              Used <= max_tokens - reserve_tokens

\* C2 witness: a finished call that accepted the inline code and a file and
\* skipped another file that would have overshot.
C2_Witness ==
    /\ Assembling
    /\ pc = "done"
    /\ content_parts # <<>>
    /\ content_parts[1].kind = "DIRECT CODE"
    /\ FileBlocks(content_parts) # <<>>
    /\ files_skipped # <<>>
    /\ Len(reads) = Len(all_files)

\* The file the scan has reached, and the block reading it returns
Reached == all_files[idx + 1]
ReachedRead == read_file_content(Reached, DEFAULT_MAX_SIZE)

Remaining == max_tokens - reserve_tokens - Used

\* C4: Acceptance against the true remaining budget.  Every file the scan
\* reaches while remaining > 0 is read, and it is accepted exactly when its
\* token count is at most remaining, where remaining counts every accepted
\* block, the inline code included, once.
C4_TrueRemainingBudget ==
    [][ (Assembling /\ pc = "loop" /\ Remaining > 0 /\ ~ReachedRead.raised) =>
            /\ reads' = Append(reads, Reached)
            /\ (ReachedRead.block.tokens <= Remaining) <=>
                   (content_parts' = Append(content_parts, ReachedRead.block))
      ]_vars

\* the tokens of the complete returned text
ResultTokens == SumTokens(result)

\* C5: Size limit of the whole result.  The tokens of the returned text,
\* every joined block counted, never exceed max_tokens.
C5_ResultWithinLimit ==
    (Assembling /\ pc = "done") => ResultTokens <= max_tokens

\* The block read_file_content owes for a validator outcome v that is not
\* an escaped exception: the label of the failure mode, or FILE
OwedKind(v, max_size) ==
    IF v.status # "ok" THEN "ERROR ACCESSING FILE"
    ELSE IF ~Exists(v.path) THEN "FILE NOT FOUND"
    ELSE IF ~IsFile(v.path) THEN "NOT A FILE"
    ELSE IF Stat(v.path).size > max_size THEN "FILE TOO LARGE"
    ELSE IF ~Stat(v.path).readable THEN "ERROR READING FILE"
    ELSE "FILE"

\* C8: read_file_content never raises.  Every call returns a block with a
\* positive token count; each failure mode yields the placeholder with its
\* own label; and a file larger than max_size is never opened.
C8_NeverRaises ==
    op = "read_file_content" =>
        /\ ret.status = "ok"
        /\ ret.block.tokens > 0
        /\ ret.block.kind = OwedKind(resolve_and_validate_path(arg), ret.max_size)
        /\ ret.block.kind = "FILE TOO LARGE" => ~ret.opened

\* the inline code was accepted (lines 631-638)
CodeAccepted ==
    code.nonempty /\ code.tokens <= max_tokens - reserve_tokens

\* C9 as stated: read_files returns the empty string whenever no file block
\* was accepted and no inline code was provided.
C9_EmptyWhenNothingAccepted ==
    (Assembling /\ pc = "done"
        /\ FileBlocks(content_parts) = <<>> /\ ~code.nonempty)
    => result = <<>>

\* C9 as amended: read_files returns the empty string exactly when no inline
\* code block was accepted and no path was supplied; with paths supplied and
\* no file block accepted the result holds the note on skipped files, or the
\* NO FILES FOUND block when the paths expand to no file.
C9_EmptyExactlyWhenNoBlock ==
    (Assembling /\ pc = "done") =>
        /\ result = <<>> <=> (file_paths = <<>> /\ ~CodeAccepted)
        /\ (file_paths # <<>> /\ FileBlocks(content_parts) = <<>>) =>
              result[Len(result)].kind =
                 IF all_files = <<>> THEN "NO FILES FOUND" ELSE "SKIPPED FILES"

\* C9 witness: code was provided but did not fit, no path was supplied, and
\* the call returned the empty string.
C9_Witness ==
    /\ Assembling
    /\ pc = "done"
    /\ code.nonempty
    /\ ~CodeAccepted
    /\ file_paths = <<>>
    /\ result = <<>>

\* C10: Output ordering.  In the returned text the inline code block, when
\* present, is the first block; the file blocks follow in ascending
\* code-point order of their paths, whatever order the caller listed the
\* paths in; the note on skipped files, when present, is the last block.
C10_OutputOrdering ==
    (Assembling /\ pc = "done") =>
        /\ CodeAccepted => (result # <<>> /\ result[1].kind = "DIRECT CODE")
        /\ \A k \in DOMAIN result :
              /\ result[k].kind = "DIRECT CODE" => k = 1
              /\ result[k].kind = "SKIPPED FILES" => k = Len(result)
        /\ files_skipped # <<>> =>
              (result # <<>> /\ result[Len(result)].kind = "SKIPPED FILES")
        /\ \A k \in 1..(Len(FileBlocks(result)) - 1) :
              StrLess(FileBlocks(result)[k].path, FileBlocks(result)[k + 1].path)

\* C10 witness: the caller listed a directory before a file that sorts
\* ahead of the directory's files; the result holds the code block, then
\* that file, then a file of the directory, then the note on skipped files.
C10_Witness ==
    /\ Assembling
    /\ pc = "done"
    /\ file_paths = <<Abs(<<n_r, n_d>>), Abs(<<n_r, n_cp>>)>>
    /\ Len(result) >= 4
    /\ result[1].kind = "DIRECT CODE"
    /\ result[2].path = Abs(<<n_r, n_cp>>)
    /\ Len(FileBlocks(result)) >= 2
    /\ result[Len(result)].kind = "SKIPPED FILES"

----------------------------------------------------------------------------
(* Claims about expand_paths (checked under Spec)                           *)

Expanded == op = "expand_paths" /\ pc = "done"

\* the canonical (symlink-resolved) path of a path string
Canonical(path_str) == RealPath(PathOf(path_str))

\* C11: No duplicates in expansion.  The list expand_paths returns holds no
\* two entries with the same canonical path.
C11_NoDuplicates ==
    Expanded =>
        \A i, j \in DOMAIN all_files :
            i # j => Canonical(all_files[i]) # Canonical(all_files[j])

\* the argument is a directory that resolves to the sandbox root itself
IsRootArgument(path_str) ==
    /\ resolve_and_validate_path(path_str).status = "ok"
    /\ resolve_and_validate_path(path_str).path = RealPath(SECURITY_ROOT)
    /\ IsDir(RealPath(SECURITY_ROOT))

NotRootArgument(path_str) == ~IsRootArgument(path_str)

\* C12: Root-enumeration guard.  An argument of expand_paths that resolves
\* to the sandbox root contributes no file and raises nothing: the call
\* ends as the call without the root arguments ends, with the same list,
\* and expand_paths of root arguments alone returns the empty list.
C12_RootGuard ==
    (op = "expand_paths" /\ pc \in {"done", "raised"}) =>
        /\ (pc = "raised") =
              expand_paths(SelectSeq(file_paths, NotRootArgument),
                           ret.extensions).raised
        /\ all_files =
              expand_paths(SelectSeq(file_paths, NotRootArgument),
                           ret.extensions).files
        /\ SelectSeq(file_paths, NotRootArgument) = <<>> =>
              (pc = "done" /\ all_files = <<>>)

\* C12 witness: the root was listed, under a name with "..", before a file;
\* the call returned that file alone.
C12_Witness ==
    /\ Expanded
    /\ file_paths = <<Abs(<<n_r, n_d, DotDot>>), Abs(<<n_r, n_cp>>)>>
    /\ all_files = <<Abs(<<n_r, n_cp>>)>>

----------------------------------------------------------------------------
(* Claims about what a denial shows the caller (checked under Spec)         *)

\* C13: No environment disclosure on denial.  When the validator refuses
\* the path read_file_content was given with PermissionError, neither the
\* error's message nor the ERROR ACCESSING FILE block built from it shows
\* anything besides the requested path: not the sandbox root, not the
\* resolved target.
C13_NoDisclosure ==
    (op = "read_file_content"
        /\ resolve_and_validate_path(arg).status = "PermissionError") =>
        /\ ErrorDetail(resolve_and_validate_path(arg)) = <<>>
        /\ ret.block.kind = "ERROR ACCESSING FILE"
        /\ ret.block.path = arg
        /\ ret.block.detail = <<>>

----------------------------------------------------------------------------
(* Claims about the end of a read_files call (checked under Spec)           *)

\* the call ran the read loop and has ended, by returning or by raising
LoopEnded == Assembling /\ all_files # <<>> /\ pc \in {"done", "raised"}

\* the file was accepted as a block
AcceptedFile(f) ==
    \E k \in DOMAIN content_parts :
        IsFileBlock(content_parts[k]) /\ content_parts[k].path = f

\* the notes on skipped files among the parts
SkipNotes(parts) == SelectSeq(parts, LAMBDA b : b.kind = "SKIPPED FILES")

\* C14: Skip accounting.  When a read_files call that ran the read loop
\* ends, every file of the expanded list is either accepted as a block or
\* recorded as skipped, never both and never neither; a note on skipped
\* files is appended exactly when a file was skipped; its count is the
\* number of skipped files, it names the first 10 of them in list order and
\* it says "and N more", N = count - 10, exactly when count > 10.
C14_SkipAccounting ==
    LoopEnded =>
        /\ \A k \in DOMAIN all_files :
              AcceptedFile(all_files[k]) # (all_files[k] \in Range(files_skipped))
        /\ Len(SkipNotes(content_parts)) = IF files_skipped # <<>> THEN 1 ELSE 0
        /\ \A k \in DOMAIN SkipNotes(content_parts) :
              LET note == SkipNotes(content_parts)[k]
                  count == Len(files_skipped)
              IN  /\ note.count = count
                  /\ note.detail =
                        SubSeq(files_skipped, 1, IF count > 10 THEN 10 ELSE count)
                  /\ note.more = IF count > 10 THEN count - 10 ELSE 0

\* the blocks that carry the content of a file; source is the path opened
HasContent(b) == b.kind = "FILE"

\* the file whose content the block carries: open() follows symbolic links
ContentOf(b) == RealPath(AbsPath(b.source))

\* a walked entry whose canonical path is outside the sandbox root
WalkedOutside(f) == ~UnderRoot(Canonical(f))

\* C15: End-to-end containment.  The text read_files builds and returns
\* carries the content of no file whose canonical path is outside the
\* sandbox root, files reached through symbolic links met in a directory
\* walk included: read_file_content validates every expanded path again
\* before opening it, and such a path gets an error placeholder, not content.
C15_EndToEndContainment ==
    Assembling =>
        /\ \A k \in DOMAIN content_parts :
              HasContent(content_parts[k]) => UnderRoot(ContentOf(content_parts[k]))
        /\ \A k \in DOMAIN result :
              HasContent(result[k]) => UnderRoot(ContentOf(result[k]))
        /\ \A k \in DOMAIN content_parts :
              (content_parts[k].path # <<>> /\ WalkedOutside(content_parts[k].path))
                  => content_parts[k].kind = "ERROR ACCESSING FILE"

\* read_files has returned text in which a file of the walked directory has
\* its content and the link of that directory to a file outside the root has
\* an error placeholder
C15_Witness ==
    /\ Assembling /\ pc = "done"
    /\ \E k \in DOMAIN all_files : WalkedOutside(all_files[k])
    /\ \E k \in DOMAIN result :
          /\ result[k].kind = "ERROR ACCESSING FILE"
          /\ result[k].path = Abs(LinkAt)
          /\ WalkedOutside(result[k].path)
    /\ \E k \in DOMAIN result : HasContent(result[k])

============================================================================
